---- MODULE Spec2Model ----
(***************************************************************************)
(* Model of the voteGame server: the votes and vote_constraints tables,    *)
(* the eligibility query getActiveVotes, the statistics computeGameStats,  *)
(* the POST /vote handler and the admin routes of src/server.js, the       *)
(* is_active variant of src/unnamed/part_001 and the in-memory             *)
(* /api/submit variant of src/index.js.                                    *)
(*                                                                         *)
(* Numbers.  average, target and the distances are JavaScript doubles.     *)
(* Vote values are integers in 0..1000, so sum and count are exact; the    *)
(* quotient sum/count is rounded once and halving is exact.  Two distances *)
(* that differ as real numbers differ by at least 1/count, far above the   *)
(* rounding error, and two distances that are equal as real numbers force  *)
(* the average to be an integer, in which case nothing is rounded.  The    *)
(* comparisons dist < minDist and dist === minDist therefore behave as on  *)
(* exact rationals, which is how they are modelled here: a number is a     *)
(* reduced fraction [num, den], and Infinity is [num |-> 1, den |-> 0].    *)
(***************************************************************************)
EXTENDS Integers, Sequences, FiniteSets, TLC

(* ---------------- bounds ---------------- *)
MaxVotes == 2
MaxConstraints == 2
MaxTime == 1
MaxSubmissions == 3

(* ---------------- inputs ---------------- *)
MinValue == 0
MaxValue == 1000
\* The request field `value`: a decimal integer ("2"), a decimal with a
\* fraction part ("2.5", written val = 2) or text that is not a number.
IntRaws == {0 - 1, 0, 1, 2, MaxValue + 1}
Raws ==
  {[kind |-> "int", val |-> n] : n \in IntRaws}
    \cup {[kind |-> "frac", val |-> 1], [kind |-> "text", val |-> 0]}
Times == 0..MaxTime
Types == {"include", "exclude"}

VARIABLES
  votes,          \* table votes, in heap (insertion) order
  constraints,    \* table vote_constraints, in insertion order
  nextVoteId,     \* serial of votes.id
  nextConstraintId, \* serial of vote_constraints.id
  now,            \* the database clock NOW()
  pc,             \* position of the POST /vote request in flight
  req,            \* its locals: num, newVoteId, rows, stats, error
  submissions,    \* the in-memory array of src/index.js
  apiRes,         \* the last answer of POST /api/submit
  clients,        \* the POST /vote requests of the rate-limited variant
  admin           \* ADMIN_USER, ADMIN_KEY and the last answer of requireAdminBasic

vars == <<votes, constraints, nextVoteId, nextConstraintId, now, pc, req,
          submissions, apiRes, clients, admin>>

(* ---------------- sequences ---------------- *)
Range(s) == {s[i] : i \in DOMAIN s}

\* all orderings of the elements of the sequence s
Orderings(s) ==
  {[i \in DOMAIN s |-> s[p[i]]] : p \in Permutations(DOMAIN s)}

(* ---------------- numbers ---------------- *)
Abs(x) == IF x < 0 THEN 0 - x ELSE x

RECURSIVE Gcd(_, _)
Gcd(a, b) == IF b = 0 THEN a ELSE Gcd(b, a % b)

\* a / b for integers a >= 0, b > 0
Div(a, b) == LET g == Gcd(a, b) IN [num |-> a \div g, den |-> b \div g]

\* q / 2
Half(q) == Div(q.num, 2 * q.den)

\* Math.abs(value - q) for an integer value
AbsDiff(value, q) == Div(Abs(value * q.den - q.num), q.den)

Infinity == [num |-> 1, den |-> 0]

\* a < b on numbers
Less(a, b) == a.num * b.den < b.num * a.den

\* the JavaScript null in a place that otherwise holds a number
Null == [num |-> 0, den |-> 0]

\* A JavaScript number as the validations see it: NaN, or val, or val + 1/2.
NaN == [nan |-> TRUE, val |-> 0, frac |-> FALSE]

parseInt(raw) ==
  IF raw.kind = "text" THEN NaN
  ELSE [nan |-> FALSE, val |-> raw.val, frac |-> FALSE]

Number(raw) ==
  IF raw.kind = "text" THEN NaN
  ELSE [nan |-> FALSE, val |-> raw.val, frac |-> raw.kind = "frac"]

isNaN(n) == n.nan

isInteger(n) == ~n.nan /\ ~n.frac

(* ---------------- eligibility: getActiveVotes ---------------- *)
\* variant: the end of the range is not part of it
BetweenHalfOpen(x, a, b) == a <= x /\ x < b

\* variant: x BETWEEN SYMMETRIC a AND b
BetweenSymmetric(x, a, b) == (a <= x /\ x <= b) \/ (b <= x /\ x <= a)

\* x BETWEEN a AND b
Between(x, a, b) == a <= x /\ x <= b

\* variant: the enabled flag is not looked at
includesAnyFlag(cs) == {c \in Range(cs) : c.type = "include"}

\* WITH includes AS (... WHERE enabled = true AND type = 'include')
includes(cs) == {c \in Range(cs) : c.enabled = TRUE /\ c.type = "include"}

\* excludes AS (... WHERE enabled = true AND type = 'exclude')
excludes(cs) == {c \in Range(cs) : c.enabled = TRUE /\ c.type = "exclude"}

\* variant: a matching include range overrides the exclude ranges
ActiveWhereIncludeWins(v, cs) ==
  \/ \E i \in includes(cs) : Between(v.created_at, i.start_time, i.end_time)
  \/ /\ ~(\E i \in includes(cs) : TRUE)
     /\ ~(\E e \in excludes(cs) : Between(v.created_at, e.start_time, e.end_time))

\* variant: without the "no include constraints" alternative
ActiveWhereNeedsInclude(v, cs) ==
  /\ \E i \in includes(cs) : Between(v.created_at, i.start_time, i.end_time)
  /\ ~(\E e \in excludes(cs) : Between(v.created_at, e.start_time, e.end_time))

\* the WHERE clause of the query, for one row v of votes
ActiveWhere(v, cs) ==
  /\ \/ ~(\E i \in includes(cs) : TRUE)
     \/ \E i \in includes(cs) : Between(v.created_at, i.start_time, i.end_time)
  /\ ~(\E e \in excludes(cs) : Between(v.created_at, e.start_time, e.end_time))

\* SELECT v.id, v.value
Row(v) == [id |-> v.id, value |-> v.value]

\* variant: SELECT id, value FROM votes, without the WHERE clause
ActiveRowsAll(vs, cs) == [i \in DOMAIN vs |-> Row(vs[i])]

\* the selected rows, in heap order
ActiveRows(vs, cs) ==
  LET sel == SelectSeq(vs, LAMBDA v : ActiveWhere(v, cs))
  IN  [i \in DOMAIN sel |-> Row(sel[i])]

\* The query has no ORDER BY: the rows come back in an order the database
\* chooses.  getActiveVotes is the set of results it can return.
getActiveVotes(vs, cs) == Orderings(ActiveRows(vs, cs))

(* ---------------- the activity board ---------------- *)
RecentLimit == 10

\* SELECT value, location, created_at FROM <S> ORDER BY created_at DESC
\* LIMIT k: every sequence of rows the query can return (rows with the same
\* created_at come in any order; the location is not modelled)
RECURSIVE LatestRows(_, _)
LatestRows(S, k) ==
  IF k = 0 \/ S = {} THEN {<<>>}
  ELSE LET times == {v.created_at : v \in S}
           latest == CHOOSE t \in times : \A u \in times : u <= t
           top == {v \in S : v.created_at = latest}
           kinds == {[value |-> v.value, created_at |-> v.created_at] :
                       v \in top}
           one(r) == CHOOSE v \in top :
                       v.value = r.value /\ v.created_at = r.created_at
       IN  UNION {{<<r>> \o rest : rest \in LatestRows(S \ {one(r)}, k - 1)} :
                    r \in kinds}

\* the recentQuery of the constraint variant: the WHERE clause of
\* getActiveVotes, then ORDER BY v.created_at DESC LIMIT 10
recentQuery(vs, cs) ==
  LatestRows({v \in Range(vs) : ActiveWhere(v, cs)}, RecentLimit)

\* the query of the rate-limited variant:
\* SELECT ... FROM votes ORDER BY created_at DESC LIMIT 10
recentRes(vs) == LatestRows(Range(vs), RecentLimit)

(* ---------------- statistics: computeGameStats ---------------- *)
\* values.reduce((a, b) => a + b, 0)
RECURSIVE Sum(_)
Sum(values) ==
  IF values = <<>> THEN 0
  ELSE Sum(SubSeq(values, 1, Len(values) - 1)) + values[Len(values)]

\* variant: the distance is taken to the average
DistancesToAverage(rows, target) ==
  [i \in DOMAIN rows |->
     [id |-> rows[i].id, value |-> rows[i].value,
      dist |-> AbsDiff(rows[i].value, Div(2 * target.num, target.den))]]

\* rows.map(row => ({id, value, dist: Math.abs(row.value - target)}))
Distances(rows, target) ==
  [i \in DOMAIN rows |->
     [id |-> rows[i].id, value |-> rows[i].value,
      dist |-> AbsDiff(rows[i].value, target)]]

\* variant: the first distance is taken as the minimum
MinDistOfFirst(distances) ==
  IF distances = <<>> THEN Infinity ELSE distances[1].dist

\* let minDist = Infinity; ... if (dist < minDist) minDist = dist;
RECURSIVE MinDist(_)
MinDist(distances) ==
  IF distances = <<>> THEN Infinity
  ELSE LET m == MinDist(SubSeq(distances, 1, Len(distances) - 1))
           d == distances[Len(distances)].dist
       IN  IF Less(d, m) THEN d ELSE m

\* variant: only the first row at the minimum distance is kept
WinnersFirstOnly(distances, minDist) ==
  LET w == SelectSeq(distances, LAMBDA d : d.dist = minDist)
  IN  IF Len(w) = 0 THEN <<>> ELSE <<w[1].id>>

\* distances.filter(d => d.dist === minDist).map(d => d.id)
Winners(distances, minDist) ==
  LET w == SelectSeq(distances, LAMBDA d : d.dist = minDist)
  IN  [i \in DOMAIN w |-> w[i].id]

Average(rows) == Div(Sum([i \in DOMAIN rows |-> rows[i].value]), Len(rows))

\* variant: two thirds of the average
TargetTwoThirds(average) == Div(2 * average.num, 3 * average.den)

Target(average) == Half(average)

\* variant: zeros in place of null
EmptyStatsZero ==
  [average |-> Div(0, 1), target |-> Div(0, 1), isWinner |-> FALSE,
   totalVotes |-> 0]

EmptyStats ==
  [average |-> Null, target |-> Null, isWinner |-> FALSE, totalVotes |-> 0]

\* the locals of computeGameStats on a non-empty result
StatsLocals(rows, newVoteId) ==
  LET values == [i \in DOMAIN rows |-> rows[i].value]
      totalVotes == Len(values)
      average == Average(rows)
      target == Target(average)
      distances == Distances(rows, target)
      minDist == MinDist(distances)
      winners == Winners(distances, minDist)
      isWinner == newVoteId \in Range(winners)
  IN  [average |-> average, target |-> target, isWinner |-> isWinner,
       totalVotes |-> totalVotes, distances |-> distances,
       minDist |-> minDist, winners |-> winners]

\* variant: isWinner is "not among the rows that lost"
computeGameStatsNotLoser(rows, newVoteId) ==
  IF Len(rows) = 0 THEN EmptyStats
  ELSE LET l == StatsLocals(rows, newVoteId)
           losers == {rows[i].id : i \in DOMAIN rows} \ Range(l.winners)
       IN  [average |-> l.average, target |-> l.target,
            isWinner |-> newVoteId \notin losers, totalVotes |-> l.totalVotes]

computeGameStats(rows, newVoteId) ==
  IF Len(rows) = 0 THEN EmptyStats
  ELSE LET l == StatsLocals(rows, newVoteId)
       IN  [average |-> l.average, target |-> l.target,
            isWinner |-> l.isWinner, totalVotes |-> l.totalVotes]

(* ---------------- responses ---------------- *)
NoError == "null"
ErrInvalid == "Please submit an integer between 0 and 1000."

NoRequest ==
  [userValue |-> 0, newVoteId |-> 0, rows |-> <<>>, stats |-> EmptyStats,
   recentVotes |-> <<>>, error |-> NoError]

NoAnswer ==
  [status |-> 0, submissionsCount |-> 0, average |-> Null, target |-> Null,
   yourValue |-> 0, winningValue |-> 0, isCurrentWinner |-> FALSE]

\* the requests of the rate-limited POST /vote that can be in flight together
NumClients == 2
Clients == 1..NumClients

ErrPlayer == "You have voted too many times recently. Please wait 5 minutes."
ErrIp == "Too many votes from your network. Please wait a bit and try again."

\* the position and the locals of one request, and what it rendered
NoClient ==
  [pc |-> "idle", num |-> 0, ip |-> 0, playerId |-> 0, newVoteId |-> 0,
   stats |-> EmptyStats, recentVotes |-> <<>>, error |-> NoError]

NoClients == [c \in Clients |-> NoClient]

\* process.env.ADMIN_USER and ADMIN_KEY of a configured server ("" when the
\* variable is not set), the Authorization header of the last request to an
\* /admin route and the status it was answered with
NoHeader == [scheme |-> "none", fields |-> <<>>]
AdminConfigured ==
  [user |-> "admin", key |-> "key", header |-> NoHeader, status |-> 0]

(* ---------------- initial state ---------------- *)
Init ==
  /\ votes = <<>>
  /\ constraints = <<>>
  /\ nextVoteId = 1
  /\ nextConstraintId = 1
  /\ now = 0
  /\ pc = "idle"
  /\ req = NoRequest
  /\ submissions = <<>>
  /\ apiRes = NoAnswer
  /\ clients = NoClients
  /\ admin = AdminConfigured

(* ---------------- time ---------------- *)
Tick ==
  /\ now < MaxTime
  /\ now' = now + 1
  /\ UNCHANGED <<votes, constraints, nextVoteId, nextConstraintId, pc, req,
                 submissions, apiRes, clients, admin>>

(* ---------------- POST /vote (src/server.js) ---------------- *)
\* INSERT INTO votes(value, ip_address, location) VALUES(...) RETURNING id
\* created_at is the column default NOW().  is_active exists in the variant
\* of src/unnamed/part_001 only, where the INSERT leaves it to its default;
\* that variant counts a new vote at once, so the default is true.
InsertVote(vs, id, value, t) ==
  Append(vs, [id |-> id, value |-> value, created_at |-> t, is_active |-> TRUE])

\* if (Number.isNaN(num) || num < 0 || num > 1000)
\* variant: the test num > 1000 is missing
InvalidNumNoUpper(num) == isNaN(num) \/ num.val < MinValue

InvalidNum(num) == isNaN(num) \/ num.val < MinValue \/ num.val > MaxValue

\* From the start of the handler to the INSERT.
VoteInsert(raw) ==
  /\ pc \in {"idle", "done"}
  /\ LET num == parseInt(raw) IN
       IF InvalidNum(num)
       THEN /\ req' = [NoRequest EXCEPT !.error = ErrInvalid]
            /\ pc' = "done"
            /\ UNCHANGED <<votes, nextVoteId>>
       ELSE /\ nextVoteId <= MaxVotes
            /\ votes' = InsertVote(votes, nextVoteId, num.val, now)
            /\ nextVoteId' = nextVoteId + 1
            /\ req' = [NoRequest EXCEPT !.userValue = num.val,
                                        !.newVoteId = nextVoteId]
            /\ pc' = "inserted"
  /\ UNCHANGED <<constraints, nextConstraintId, now, submissions, apiRes, clients, admin>>

\* variant: the votes that are not selected are removed from the table
VoteStatsPruning ==
  /\ pc = "inserted"
  /\ \E rows \in getActiveVotes(votes, constraints) :
       req' = [req EXCEPT !.rows = rows,
                          !.stats = computeGameStats(rows, req.newVoteId)]
  /\ pc' = "done"
  /\ votes' = SelectSeq(votes, LAMBDA v : ActiveWhere(v, constraints))
  /\ UNCHANGED <<constraints, nextVoteId, nextConstraintId, now,
                 submissions, apiRes, clients, admin>>

\* variant: the rows are those of the table before the INSERT of the request
VoteStatsStale ==
  /\ pc = "inserted"
  /\ \E rows \in getActiveVotes(
                   SelectSeq(votes, LAMBDA v : v.id # req.newVoteId),
                   constraints) :
       req' = [req EXCEPT !.rows = rows,
                          !.stats = computeGameStats(rows, req.newVoteId)]
  /\ pc' = "done"
  /\ UNCHANGED <<votes, constraints, nextVoteId, nextConstraintId, now,
                 submissions, apiRes, clients, admin>>

\* const stats = await computeGameStats(newVoteId); and the answer.
VoteStats ==
  /\ pc = "inserted"
  /\ \E rows \in getActiveVotes(votes, constraints) :
       \E recentVotes \in recentQuery(votes, constraints) :
         req' = [req EXCEPT !.rows = rows,
                            !.stats = computeGameStats(rows, req.newVoteId),
                            !.recentVotes = recentVotes]
  /\ pc' = "done"
  /\ UNCHANGED <<votes, constraints, nextVoteId, nextConstraintId, now,
                 submissions, apiRes, clients, admin>>

(* ---------------- admin routes (src/server.js) ---------------- *)
\* POST /admin/constraints
AdminCreateConstraint(start, end, type, enabled) ==
  /\ nextConstraintId <= MaxConstraints
  /\ type \in Types
  /\ constraints' = Append(constraints,
       [id |-> nextConstraintId, start_time |-> start, end_time |-> end,
        type |-> type, enabled |-> enabled])
  /\ nextConstraintId' = nextConstraintId + 1
  /\ UNCHANGED <<votes, nextVoteId, now, pc, req, submissions, apiRes, clients, admin>>

\* variant: the UPDATE without its WHERE clause
ToggleConstraintAll(cs, id) ==
  [i \in DOMAIN cs |-> [cs[i] EXCEPT !.enabled = ~cs[i].enabled]]

\* UPDATE vote_constraints SET enabled = NOT enabled WHERE id = $1
ToggleConstraint(cs, id) ==
  [i \in DOMAIN cs |->
     IF cs[i].id = id THEN [cs[i] EXCEPT !.enabled = ~cs[i].enabled]
     ELSE cs[i]]

\* POST /admin/constraints/:id/toggle
AdminToggle(id) ==
  /\ constraints' = ToggleConstraint(constraints, id)
  /\ UNCHANGED <<votes, nextVoteId, nextConstraintId, now, pc, req,
                 submissions, apiRes, clients, admin>>

\* DELETE FROM <table> WHERE id = $1
DeleteById(table, id) == SelectSeq(table, LAMBDA r : r.id # id)

\* POST /admin/constraints/:id/delete
AdminDeleteConstraint(id) ==
  /\ constraints' = DeleteById(constraints, id)
  /\ UNCHANGED <<votes, nextVoteId, nextConstraintId, now, pc, req,
                 submissions, apiRes, clients, admin>>

\* POST /admin/votes/:id/delete
AdminDeleteVote(id) ==
  /\ votes' = DeleteById(votes, id)
  /\ UNCHANGED <<constraints, nextVoteId, nextConstraintId, now, pc, req,
                 submissions, apiRes, clients, admin>>

VoteIds == 1..MaxVotes
ConstraintIds == 1..MaxConstraints

Next ==
  \/ Tick
  \/ \E raw \in Raws : VoteInsert(raw)
  \/ VoteStats
  \/ \E start \in Times, end \in Times, type \in Types, enabled \in BOOLEAN :
       AdminCreateConstraint(start, end, type, enabled)
  \/ \E id \in ConstraintIds : AdminToggle(id)
  \/ \E id \in ConstraintIds : AdminDeleteConstraint(id)
  \/ \E id \in VoteIds : AdminDeleteVote(id)

Spec == Init /\ [][Next]_vars

(* ---------------- statistics on larger tables ---------------- *)
\* The state right after the INSERT of POST /vote into a table of up to
\* MaxRows votes, no constraint stored: the inputs of computeGameStats.
MaxRows == 3
StatValues == {0, 1, 2, 3}

VoteTables ==
  UNION {[1..k -> StatValues \X Times] : k \in 1..MaxRows}

\* created_at never decreases along the serial ids
TimeOrdered(t) == \A i \in DOMAIN t : \A j \in DOMAIN t : i < j => t[i][2] <= t[j][2]

StatConstraints ==
  { <<>>,
    <<[id |-> 1, start_time |-> 1, end_time |-> 1, type |-> "exclude",
       enabled |-> TRUE]>>,
    <<[id |-> 1, start_time |-> 0, end_time |-> 0, type |-> "include",
       enabled |-> TRUE]>> }

InitStats ==
  /\ \E t \in VoteTables :
       /\ TimeOrdered(t)
       /\ votes = [i \in DOMAIN t |->
                     [id |-> i, value |-> t[i][1], created_at |-> t[i][2],
                      is_active |-> TRUE]]
       /\ nextVoteId = Len(t) + 1
       /\ req = [NoRequest EXCEPT !.userValue = t[Len(t)][1],
                                  !.newVoteId = Len(t)]
       /\ now = t[Len(t)][2]
  /\ constraints \in StatConstraints
  /\ nextConstraintId = Len(constraints) + 1
  /\ pc = "inserted"
  /\ submissions = <<>>
  /\ apiRes = NoAnswer
  /\ clients = NoClients
  /\ admin = AdminConfigured

NextStats == VoteStats

SpecStats == InitStats /\ [][NextStats]_vars

(* ---------------- computeGameStats on hundreds ---------------- *)
\* The state in which a request runs computeGameStats after its own INSERT
\* and those of the requests that came after it: newVoteId is any stored id.
ScenarioValues == {225, 300, 600}

ScenarioTables ==
  UNION {[1..k -> ScenarioValues \X Times] : k \in 1..MaxRows}

InitScenario ==
  /\ \E t \in ScenarioTables :
       /\ TimeOrdered(t)
       /\ votes = [i \in DOMAIN t |->
                     [id |-> i, value |-> t[i][1], created_at |-> t[i][2],
                      is_active |-> TRUE]]
       /\ nextVoteId = Len(t) + 1
       /\ \E id \in DOMAIN t :
            req = [NoRequest EXCEPT !.userValue = t[id][1], !.newVoteId = id]
       /\ now = t[Len(t)][2]
  /\ constraints \in StatConstraints
  /\ nextConstraintId = Len(constraints) + 1
  /\ pc = "inserted"
  /\ submissions = <<>>
  /\ apiRes = NoAnswer
  /\ clients = NoClients
  /\ admin = AdminConfigured

NextScenario == VoteStats

SpecScenario == InitScenario /\ [][NextScenario]_vars

(* ---------------- POST /vote with failing queries ---------------- *)
ErrGeneric == "Something went wrong. Please try again later."

\* the INSERT rejects: the catch block renders the generic error
VoteInsertFails(raw) ==
  /\ pc \in {"idle", "done"}
  /\ ~InvalidNum(parseInt(raw))
  /\ req' = [NoRequest EXCEPT !.userValue = parseInt(raw).val,
                              !.error = ErrGeneric]
  /\ pc' = "done"
  /\ UNCHANGED <<votes, constraints, nextVoteId, nextConstraintId, now,
                 submissions, apiRes, clients, admin>>

\* computeGameStats or the recentQuery rejects after the INSERT has returned:
\* the catch block renders the generic error
VoteStatsFails ==
  /\ pc = "inserted"
  /\ req' = [req EXCEPT !.error = ErrGeneric]
  /\ pc' = "done"
  /\ UNCHANGED <<votes, constraints, nextVoteId, nextConstraintId, now,
                 submissions, apiRes, clients, admin>>

NextFailing ==
  \/ Tick
  \/ \E raw \in Raws : VoteInsert(raw)
  \/ \E raw \in Raws : VoteInsertFails(raw)
  \/ VoteStats
  \/ VoteStatsFails
  \/ \E id \in VoteIds : AdminDeleteVote(id)

SpecFailing == Init /\ [][NextFailing]_vars

(* ---------------- requireAdminBasic and the /admin routes ------------- *)
\* The Authorization header: absent, of another scheme, or "Basic " followed
\* by the base64 of a text; fields is that text split at every ":".
Headers ==
  {NoHeader, [scheme |-> "Bearer", fields |-> <<"admin", "key">>]}
    \cup {[scheme |-> "Basic", fields |-> f] :
            f \in {<<"admin", "key">>, <<"admin", "key", "x">>, <<"admin">>,
                   <<"admin", "x">>, <<"x", "key">>, <<"key", "admin">>}}

\* const [user, pass] = decoded.split(':'): the k-th field, or undefined
Field(fields, k) == IF k <= Len(fields) THEN fields[k] ELSE "undefined"

\* the status requireAdminBasic answers with, or 0 when it calls next()
requireAdminBasic(env, header) ==
  IF env.user = "" \/ env.key = "" THEN 500
  ELSE IF header.scheme # "Basic" THEN 401
  ELSE IF Field(header.fields, 1) = env.user
            /\ Field(header.fields, 2) = env.key THEN 0
  ELSE 401

\* a server with or without ADMIN_USER and ADMIN_KEY, and two votes stored
InitAdmin ==
  /\ votes = <<[id |-> 1, value |-> 1, created_at |-> 0, is_active |-> TRUE],
               [id |-> 2, value |-> 2, created_at |-> 0, is_active |-> TRUE]>>
  /\ constraints = <<>>
  /\ nextVoteId = 3
  /\ nextConstraintId = 1
  /\ now = 0
  /\ pc = "idle"
  /\ req = NoRequest
  /\ submissions = <<>>
  /\ apiRes = NoAnswer
  /\ clients = NoClients
  /\ \E user \in {"admin", ""}, key \in {"key", ""} :
       admin = [AdminConfigured EXCEPT !.user = user, !.key = key]

AdminFrame ==
  UNCHANGED <<nextVoteId, now, pc, req, submissions, apiRes, clients>>

\* requireAdminBasic answers 401 or 500: the route handler does not run
AdminRejected(header) ==
  /\ requireAdminBasic(admin, header) # 0
  /\ admin' = [admin EXCEPT !.header = header,
                            !.status = requireAdminBasic(admin, header)]
  /\ UNCHANGED <<votes, constraints, nextConstraintId>>
  /\ AdminFrame

\* next(): the route handler runs and redirects to /admin
AdminPassed(header) ==
  /\ requireAdminBasic(admin, header) = 0
  /\ admin' = [admin EXCEPT !.header = header, !.status = 302]
  /\ AdminFrame

\* GET /admin
GatedDashboard(header) ==
  /\ requireAdminBasic(admin, header) = 0
  /\ admin' = [admin EXCEPT !.header = header, !.status = 200]
  /\ UNCHANGED <<votes, constraints, nextConstraintId>>
  /\ AdminFrame

\* POST /admin/constraints
GatedCreateConstraint(header, start, end, type, enabled) ==
  /\ AdminPassed(header)
  /\ nextConstraintId <= MaxConstraints
  /\ constraints' = Append(constraints,
       [id |-> nextConstraintId, start_time |-> start, end_time |-> end,
        type |-> type, enabled |-> enabled])
  /\ nextConstraintId' = nextConstraintId + 1
  /\ UNCHANGED votes

\* POST /admin/constraints/:id/toggle
GatedToggle(header, id) ==
  /\ AdminPassed(header)
  /\ constraints' = ToggleConstraint(constraints, id)
  /\ UNCHANGED <<votes, nextConstraintId>>

\* POST /admin/constraints/:id/delete
GatedDeleteConstraint(header, id) ==
  /\ AdminPassed(header)
  /\ constraints' = DeleteById(constraints, id)
  /\ UNCHANGED <<votes, nextConstraintId>>

\* POST /admin/votes/:id/delete
GatedDeleteVote(header, id) ==
  /\ AdminPassed(header)
  /\ votes' = DeleteById(votes, id)
  /\ UNCHANGED <<constraints, nextConstraintId>>

NextAdmin ==
  \/ \E header \in Headers : AdminRejected(header)
  \/ \E header \in Headers : GatedDashboard(header)
  \/ \E header \in Headers, start \in Times, end \in Times, type \in Types,
        enabled \in BOOLEAN :
       GatedCreateConstraint(header, start, end, type, enabled)
  \/ \E header \in Headers, id \in ConstraintIds : GatedToggle(header, id)
  \/ \E header \in Headers, id \in ConstraintIds :
       GatedDeleteConstraint(header, id)
  \/ \E header \in Headers, id \in VoteIds : GatedDeleteVote(header, id)

SpecAdmin == InitAdmin /\ [][NextAdmin]_vars

(* ---------------- the is_active variant (src/unnamed/part_001) -------- *)
\* SELECT id, value FROM votes WHERE is_active = true (no ORDER BY)
IsActiveRows(vs) ==
  LET sel == SelectSeq(vs, LAMBDA v : v.is_active = TRUE)
  IN  Orderings([i \in DOMAIN sel |-> Row(sel[i])])

RangeVoteStats ==
  /\ pc = "inserted"
  /\ \E rows \in IsActiveRows(votes) :
       req' = [req EXCEPT !.rows = rows,
                          !.stats = computeGameStats(rows, req.newVoteId)]
  /\ pc' = "done"
  /\ UNCHANGED <<votes, constraints, nextVoteId, nextConstraintId, now,
                 submissions, apiRes, clients, admin>>

\* UPDATE votes SET is_active = $1 WHERE created_at BETWEEN $2 AND $3
SetActiveInRange(vs, enable, start, end) ==
  [i \in DOMAIN vs |->
     IF Between(vs[i].created_at, start, end)
     THEN [vs[i] EXCEPT !.is_active = enable]
     ELSE vs[i]]

RangeActions == {"enable", "disable"}

\* POST /admin/range
AdminRange(start, end, action) ==
  /\ LET enable == (action = "enable")
     IN  votes' = SetActiveInRange(votes, enable, start, end)
  /\ UNCHANGED <<constraints, nextVoteId, nextConstraintId, now, pc, req,
                 submissions, apiRes, clients, admin>>

NextRange ==
  \/ Tick
  \/ \E raw \in Raws : VoteInsert(raw)
  \/ RangeVoteStats
  \/ \E start \in Times, end \in Times, action \in RangeActions :
       AdminRange(start, end, action)
  \/ \E id \in VoteIds : AdminDeleteVote(id)

SpecRange == Init /\ [][NextRange]_vars

(* ---------------- POST /api/submit (src/index.js) ---------------- *)
\* the loop over i = 1 .. submissions.length - 1 (indices here from 1)
\* variant: a later submission at the same distance replaces the best one
RECURSIVE BestFromLast(_, _, _, _, _)
BestFromLast(subs, target, i, bestIndex, bestDiff) ==
  IF i > Len(subs) THEN bestIndex
  ELSE LET diff == AbsDiff(subs[i].value, target)
       IN  IF ~Less(bestDiff, diff)
           THEN BestFromLast(subs, target, i + 1, i, diff)
           ELSE BestFromLast(subs, target, i + 1, bestIndex, bestDiff)

RECURSIVE BestFrom(_, _, _, _, _)
BestFrom(subs, target, i, bestIndex, bestDiff) ==
  IF i > Len(subs) THEN bestIndex
  ELSE LET diff == AbsDiff(subs[i].value, target)
       IN  IF Less(diff, bestDiff)
           THEN BestFrom(subs, target, i + 1, i, diff)
           ELSE BestFrom(subs, target, i + 1, bestIndex, bestDiff)

\* variant: the loop starts one element late
BestIndexLateStart(subs, target) ==
  BestFrom(subs, target, 3, 1, AbsDiff(subs[1].value, target))

BestIndex(subs, target) ==
  BestFrom(subs, target, 2, 1, AbsDiff(subs[1].value, target))

SubmitAverage(subs) ==
  Div(Sum([i \in DOMAIN subs |-> subs[i].value]), Len(subs))

Submit(raw) ==
  /\ LET value == Number(raw) IN
       IF ~isInteger(value) \/ value.val < MinValue \/ value.val > MaxValue
       THEN /\ apiRes' = [NoAnswer EXCEPT !.status = 400]
            /\ UNCHANGED submissions
       ELSE /\ Len(submissions) < MaxSubmissions
            /\ LET submission == [value |-> value.val, frac |-> value.frac,
                                  timestamp |-> now]
                   subs == Append(submissions, submission)
                   n == Len(subs)
                   average == SubmitAverage(subs)
                   target == Target(average)
                   bestIndex == BestIndex(subs, target)
                   winningSubmission == subs[bestIndex]
                   \* winningSubmission === submission: the same object,
                   \* which is the element just pushed
                   isCurrentWinner == (bestIndex = n)
               IN  /\ submissions' = subs
                   /\ apiRes' = [status |-> 200, submissionsCount |-> n,
                                 average |-> average, target |-> target,
                                 yourValue |-> value.val,
                                 winningValue |-> winningSubmission.value,
                                 isCurrentWinner |-> isCurrentWinner]
  /\ UNCHANGED <<votes, constraints, nextVoteId, nextConstraintId, now, pc,
                 req, clients, admin>>

NextSubmit ==
  \/ Tick
  \/ \E raw \in Raws : Submit(raw)

SpecSubmit == Init /\ [][NextSubmit]_vars

(* ---------------- the rate-limited POST /vote (src/server.js) --------- *)
PLAYER_MAX_VOTES == 3
PLAYER_WINDOW_MINUTES == 5
IP_MAX_VOTES == 200
IP_WINDOW_MINUTES == 10

\* the clock in minutes, far enough to leave the player window
MaxClock == 6
MaxLimitedVotes == 4
MaxPlayers == 2

\* player_id values; 0 stands for a request without player_id in body or cookie
PlayerIds == 1..MaxPlayers
Cookies == PlayerIds \cup {0}
Ips == {1}
LimitedRaws == {[kind |-> "int", val |-> 1], [kind |-> "text", val |-> 0]}

TickMinute ==
  /\ now < MaxClock
  /\ now' = now + 1
  /\ UNCHANGED <<votes, constraints, nextVoteId, nextConstraintId, pc, req,
                 submissions, apiRes, clients, admin>>

\* req.body.player_id || req.cookies.player_id, else crypto.randomUUID():
\* an id that no vote and no request carries
getOrCreatePlayerId(cookie) ==
  IF cookie # 0 THEN {cookie}
  ELSE PlayerIds \ ({votes[i].player_id : i \in DOMAIN votes}
                      \cup {clients[c].playerId : c \in Clients})

\* SELECT COUNT(*) FROM votes WHERE player_id = $1
\*   AND created_at >= NOW() - INTERVAL '5 minutes'
PlayerCount(vs, playerId, t) ==
  Cardinality({i \in DOMAIN vs :
                 /\ vs[i].player_id = playerId
                 /\ vs[i].created_at >= t - PLAYER_WINDOW_MINUTES})

\* SELECT COUNT(*) FROM votes WHERE ip_address = $1
\*   AND created_at >= NOW() - INTERVAL '10 minutes'
IpCount(vs, ip, t) ==
  Cardinality({i \in DOMAIN vs :
                 /\ vs[i].ip_address = ip
                 /\ vs[i].created_at >= t - IP_WINDOW_MINUTES})

\* INSERT INTO votes(value, ip_address, location, player_id) VALUES(...)
InsertLimitedVote(vs, id, value, ip, playerId, t) ==
  Append(vs, [id |-> id, value |-> value, created_at |-> t,
              ip_address |-> ip, player_id |-> playerId])

LimitedFrame ==
  UNCHANGED <<constraints, nextConstraintId, now, pc, req, submissions,
              apiRes, admin>>

\* variant: the error is rendered without `return`
LimitedStartNoReturn(c, raw, cookie, ip) ==
  /\ clients[c].pc \in {"idle", "done"}
  /\ LET num == parseInt(raw) IN
       \E playerId \in getOrCreatePlayerId(cookie) :
         clients' = [clients EXCEPT ![c] =
                       [NoClient EXCEPT !.pc = "validated",
                                        !.num = num.val, !.ip = ip,
                                        !.playerId = playerId,
                                        !.error = IF InvalidNum(num)
                                                  THEN ErrInvalid
                                                  ELSE NoError]]
  /\ UNCHANGED <<votes, nextVoteId>>
  /\ LimitedFrame

\* a request arrives: parse, validate, getClientIp, getOrCreatePlayerId
LimitedStart(c, raw, cookie, ip) ==
  /\ clients[c].pc \in {"idle", "done"}
  /\ LET num == parseInt(raw) IN
       IF InvalidNum(num)
       THEN clients' = [clients EXCEPT ![c] =
                          [NoClient EXCEPT !.pc = "done", !.error = ErrInvalid]]
       ELSE \E playerId \in getOrCreatePlayerId(cookie) :
              clients' = [clients EXCEPT ![c] =
                            [NoClient EXCEPT !.pc = "validated",
                                             !.num = num.val, !.ip = ip,
                                             !.playerId = playerId]]
  /\ UNCHANGED <<votes, nextVoteId>>
  /\ LimitedFrame

\* variant: the player may reach one vote more than PLAYER_MAX_VOTES
LimitedPlayerCheckStrict(c) ==
  /\ clients[c].pc = "validated"
  /\ LET playerCnt == PlayerCount(votes, clients[c].playerId, now) IN
       clients' = [clients EXCEPT ![c] =
         IF playerCnt > PLAYER_MAX_VOTES
         THEN [@ EXCEPT !.pc = "done", !.error = ErrPlayer]
         ELSE [@ EXCEPT !.pc = "playerOk"]]
  /\ UNCHANGED <<votes, nextVoteId>>
  /\ LimitedFrame

\* 1) the per-player query and its test
LimitedPlayerCheck(c) ==
  /\ clients[c].pc = "validated"
  /\ LET playerCnt == PlayerCount(votes, clients[c].playerId, now) IN
       clients' = [clients EXCEPT ![c] =
         IF playerCnt >= PLAYER_MAX_VOTES
         THEN [@ EXCEPT !.pc = "done", !.error = ErrPlayer]
         ELSE [@ EXCEPT !.pc = "playerOk"]]
  /\ UNCHANGED <<votes, nextVoteId>>
  /\ LimitedFrame

\* 2) the per-IP query and its test
LimitedIpCheck(c) ==
  /\ clients[c].pc = "playerOk"
  /\ LET ipCnt == IpCount(votes, clients[c].ip, now) IN
       clients' = [clients EXCEPT ![c] =
         IF ipCnt >= IP_MAX_VOTES
         THEN [@ EXCEPT !.pc = "done", !.error = ErrIp]
         ELSE [@ EXCEPT !.pc = "ipOk"]]
  /\ UNCHANGED <<votes, nextVoteId>>
  /\ LimitedFrame

\* 3) the INSERT (the location is not modelled)
LimitedInsert(c) ==
  /\ clients[c].pc = "ipOk"
  /\ Cardinality({i \in DOMAIN votes : votes[i].player_id \in PlayerIds})
       < MaxLimitedVotes
  /\ votes' = InsertLimitedVote(votes, nextVoteId, clients[c].num,
                                clients[c].ip, clients[c].playerId, now)
  /\ nextVoteId' = nextVoteId + 1
  /\ clients' = [clients EXCEPT ![c] =
                   [@ EXCEPT !.pc = "inserted", !.newVoteId = nextVoteId]]
  /\ LimitedFrame

\* computeGameStats(newVoteId), the activity board and the render of both
LimitedStats(c) ==
  /\ clients[c].pc = "inserted"
  /\ \E rows \in getActiveVotes(votes, constraints) :
       \E recentVotes \in recentRes(votes) :
         clients' = [clients EXCEPT ![c] =
                       [@ EXCEPT !.pc = "done",
                                 !.stats = computeGameStats(
                                             rows, clients[c].newVoteId),
                                 !.recentVotes = recentVotes]]
  /\ UNCHANGED <<votes, nextVoteId>>
  /\ LimitedFrame

NextLimited ==
  \/ Tick
  \/ \E c \in Clients, raw \in LimitedRaws, cookie \in Cookies, ip \in Ips :
       LimitedStart(c, raw, cookie, ip)
  \/ \E c \in Clients : LimitedPlayerCheck(c)
  \/ \E c \in Clients : LimitedIpCheck(c)
  \/ \E c \in Clients : LimitedInsert(c)
  \/ \E c \in Clients : LimitedStats(c)

SpecLimited == Init /\ [][NextLimited]_vars

(* ---------------- the rate-limited POST /vote behind one busy IP ------ *)
\* n votes sent from one IP within the minute 0: the first `own` by player 1,
\* the others by further players, PLAYER_MAX_VOTES each
CrowdTable(n, own) ==
  [i \in 1..n |->
     [id |-> i, value |-> 1, created_at |-> 0, ip_address |-> 1,
      player_id |-> IF i <= own THEN 1
                    ELSE MaxPlayers + 1 + ((i - own - 1) \div PLAYER_MAX_VOTES)]]

\* one vote below the IP cap, or at the cap with player 1 at the player cap;
\* the admin has excluded the minute 0
InitCrowd ==
  /\ votes \in {CrowdTable(IP_MAX_VOTES - 1, 0),
                CrowdTable(IP_MAX_VOTES, PLAYER_MAX_VOTES)}
  /\ constraints = <<[id |-> 1, start_time |-> 0, end_time |-> 0,
                      type |-> "exclude", enabled |-> TRUE]>>
  /\ nextVoteId = Len(votes) + 1
  /\ nextConstraintId = 2
  /\ now = 0
  /\ pc = "idle"
  /\ req = NoRequest
  /\ submissions = <<>>
  /\ apiRes = NoAnswer
  /\ clients = NoClients
  /\ admin = AdminConfigured

NextCrowd ==
  \/ TickMinute
  \/ \E c \in Clients, raw \in LimitedRaws, cookie \in Cookies, ip \in Ips :
       LimitedStart(c, raw, cookie, ip)
  \/ \E c \in Clients : LimitedPlayerCheck(c)
  \/ \E c \in Clients : LimitedIpCheck(c)
  \/ \E c \in Clients : LimitedInsert(c)
  \/ \E c \in Clients : LimitedStats(c)

SpecCrowd == InitCrowd /\ [][NextCrowd]_vars

(* ---------------- the two stores: votes and submissions --------------- *)
\* One browser with the cookie player_id = 1 sends any value to the
\* rate-limited POST /vote and to POST /api/submit, one request at a time.
Serial == {1}
StoreCookies == {1}

NextStores ==
  \/ \E c \in Serial, raw \in Raws, cookie \in StoreCookies, ip \in Ips :
       LimitedStart(c, raw, cookie, ip)
  \/ \E c \in Serial : LimitedPlayerCheck(c)
  \/ \E c \in Serial : LimitedIpCheck(c)
  \/ \E c \in Serial : LimitedInsert(c)
  \/ \E c \in Serial : LimitedStats(c)
  \/ \E raw \in Raws : Submit(raw)

SpecStores == Init /\ [][NextStores]_vars

(* ---------------- the rate-limited POST /vote, one request at a time -- *)
NextSerial ==
  \/ TickMinute
  \/ \E c \in Serial, raw \in LimitedRaws, cookie \in Cookies, ip \in Ips :
       LimitedStart(c, raw, cookie, ip)
  \/ \E c \in Serial : LimitedPlayerCheck(c)
  \/ \E c \in Serial : LimitedIpCheck(c)
  \/ \E c \in Serial : LimitedInsert(c)
  \/ \E c \in Serial : LimitedStats(c)

SpecSerial == Init /\ [][NextSerial]_vars

(***************************************************************************)
(* Properties                                                              *)
(***************************************************************************)
\* the votes and constraints as the properties speak of them
StoredVotes == Range(votes)
EnabledConstraints(type) ==
  {i \in DOMAIN constraints :
     constraints[i].enabled /\ constraints[i].type = type}
Covers(i, v) ==
  /\ constraints[i].start_time <= v.created_at
  /\ v.created_at <= constraints[i].end_time
Included(v) == \E i \in EnabledConstraints("include") : Covers(i, v)
Excluded(v) == \E i \in EnabledConstraints("exclude") : Covers(i, v)
Returned(rows, v) == \E k \in DOMAIN rows : rows[k].id = v.id
\* the request in flight has been answered with statistics
Answered == pc = "done" /\ req.error = NoError /\ req.newVoteId > 0
\* the answer was computed from the tables as they are now
AnswerIsCurrent == req.rows \in getActiveVotes(votes, constraints)

\* C1: getActiveVotes returns a vote if and only if (no enabled include
\* constraint exists or an enabled include range contains its created_at,
\* ends included) and no enabled exclude range contains its created_at.
C1_EligibleIff ==
  \A rows \in getActiveVotes(votes, constraints) :
    \A v \in StoredVotes :
      Returned(rows, v) <=>
        /\ (EnabledConstraints("include") = {} \/ Included(v))
        /\ ~Excluded(v)

\* a vote at the end of an include range was returned, another vote was not
C1_Witness ==
  /\ Answered /\ AnswerIsCurrent
  /\ \E v \in StoredVotes :
       /\ Returned(req.rows, v)
       /\ \E i \in EnabledConstraints("include") :
            Covers(i, v) /\ constraints[i].end_time = v.created_at
  /\ \E v \in StoredVotes : ~Returned(req.rows, v)

\* C2: a vote whose created_at lies in an enabled exclude range is in no
\* result of getActiveVotes, whatever include ranges contain it.
C2_ExcludeWins ==
  \A v \in StoredVotes :
    Excluded(v) =>
      \A rows \in getActiveVotes(votes, constraints) : ~Returned(rows, v)

\* a vote in an enabled include range and in an enabled exclude range, after
\* the statistics were computed without it
C2_Witness ==
  /\ Answered /\ AnswerIsCurrent
  /\ \E v \in StoredVotes : Included(v) /\ Excluded(v) /\ ~Returned(req.rows, v)

\* the constraints with the disabled ones removed
OnlyEnabled(cs) == SelectSeq(cs, LAMBDA c : c.enabled)
Without(cs, id) == SelectSeq(cs, LAMBDA c : c.id # id)

\* C3: the eligible set is the eligible set of the enabled constraints alone,
\* and a step that disables a constraint leaves the eligible set that
\* deleting the constraint would have left.
C3_DisabledIgnored ==
  /\ [](getActiveVotes(votes, constraints)
          = getActiveVotes(votes, OnlyEnabled(constraints)))
  /\ [][\A i \in DOMAIN constraints :
          (/\ constraints[i].enabled
           /\ constraints' = ToggleConstraint(constraints, constraints[i].id))
          => getActiveVotes(votes', constraints')
               = getActiveVotes(votes, Without(constraints, constraints[i].id))]_vars

\* a disabled include constraint that contains no stored vote, next to votes
\* that were all returned
C3_Witness ==
  /\ Answered /\ AnswerIsCurrent
  /\ Len(req.rows) = Len(votes) /\ Len(votes) > 0
  /\ \E i \in DOMAIN constraints :
       /\ ~constraints[i].enabled /\ constraints[i].type = "include"
       /\ \A v \in StoredVotes : ~Covers(i, v)

\* C4: when no enabled include constraint exists, every vote outside every
\* enabled exclude range is returned.
C4_NoIncludeAllEligible ==
  EnabledConstraints("include") = {} =>
    \A rows \in getActiveVotes(votes, constraints) :
      \A v \in StoredVotes : ~Excluded(v) => Returned(rows, v)

\* no enabled include, an enabled exclude that misses a returned vote
C4_Witness ==
  /\ Answered /\ AnswerIsCurrent
  /\ EnabledConstraints("include") = {}
  /\ EnabledConstraints("exclude") # {}
  /\ \E v \in StoredVotes : ~Excluded(v) /\ Returned(req.rows, v)

\* C5: two votes with the same created_at are both eligible or both
\* ineligible, whatever the earlier admin actions.  Stated for the is_active
\* variant, where the eligible votes are the rows with is_active = true.
C5_SameTimeSameEligibility ==
  \A v1 \in StoredVotes : \A v2 \in StoredVotes :
    v1.created_at = v2.created_at =>
      \A rows \in IsActiveRows(votes) :
        Returned(rows, v1) <=> Returned(rows, v2)

\* The same statement for the constraint variant of src/server.js.
C5_ConstraintVariant ==
  \A v1 \in StoredVotes : \A v2 \in StoredVotes :
    v1.created_at = v2.created_at =>
      \A rows \in getActiveVotes(votes, constraints) :
        Returned(rows, v1) <=> Returned(rows, v2)

\* the step of POST /vote that runs getActiveVotes
StatsStep == pc = "inserted" /\ pc' = "done"

Position(id) == CHOOSE k \in DOMAIN votes : votes[k].id = id
InTableOrder(rows) ==
  \A a \in DOMAIN rows : \A b \in DOMAIN rows :
    a < b => Position(rows[a].id) < Position(rows[b].id)
Eligible(v) ==
  (EnabledConstraints("include") = {} \/ Included(v)) /\ ~Excluded(v)

\* C6 as stated: computing the eligible set changes neither votes nor
\* constraints, and the rows come back in the order of the votes table.
C6_NoEffectAndOrder ==
  [][StatsStep =>
       /\ votes' = votes /\ constraints' = constraints
       /\ InTableOrder(req'.rows)]_vars

\* C6 amended: computing the eligible set changes neither votes nor
\* constraints, and returns every eligible vote exactly once, with its value;
\* the order of the rows is not determined.
C6_NoEffectEachOnce ==
  [][StatsStep =>
       /\ votes' = votes /\ constraints' = constraints
       /\ \A a \in DOMAIN req'.rows : \A b \in DOMAIN req'.rows :
            req'.rows[a].id = req'.rows[b].id => a = b
       /\ Range(req'.rows)
            = {[id |-> v.id, value |-> v.value] : v \in {w \in StoredVotes : Eligible(w)}}]_vars

\* two eligible votes, returned in the opposite order, next to an enabled
\* constraint
C6_Witness ==
  /\ Answered /\ AnswerIsCurrent
  /\ Len(req.rows) = 2 /\ ~InTableOrder(req.rows)
  /\ EnabledConstraints("include") # {}

\* C7: when no stored vote is eligible, computeGameStats answers
\* {average: null, target: null, isWinner: false, totalVotes: 0}, and the
\* request ends without an error.
C7_EmptySentinel ==
  [][(StatsStep /\ \A v \in StoredVotes : ~Eligible(v)) =>
       /\ req'.stats = [average |-> Null, target |-> Null,
                        isWinner |-> FALSE, totalVotes |-> 0]
       /\ req'.error = NoError]_vars

\* the vote just inserted is stored and filtered out, and the answer is the
\* sentinel
C7_Witness ==
  /\ Answered /\ AnswerIsCurrent
  /\ \E v \in StoredVotes : v.id = req.newVoteId
  /\ \A v \in StoredVotes : ~Eligible(v)
  /\ req.stats.totalVotes = 0

RECURSIVE ValueSum(_)
ValueSum(S) ==
  IF S = {} THEN 0
  ELSE LET v == CHOOSE w \in S : TRUE IN v.value + ValueSum(S \ {v})
EligibleVotes == {v \in StoredVotes : Eligible(v)}
EligibleCount == Cardinality(EligibleVotes)
\* the answer to the request, computed from a non-empty eligible set
StatsAnswered == Answered /\ EligibleVotes # {}

\* C8: on a non-empty eligible set, average * count = sum of the eligible
\* values, and 2 * target = average.
C8_AverageAndTarget ==
  StatsAnswered =>
    /\ req.stats.average.den > 0 /\ req.stats.target.den > 0
    /\ req.stats.average.num * EligibleCount
         = ValueSum(EligibleVotes) * req.stats.average.den
    /\ 2 * req.stats.target.num * req.stats.average.den
         = req.stats.average.num * req.stats.target.den

\* an average that is no integer, over two eligible votes out of three
C8_Witness ==
  /\ StatsAnswered
  /\ EligibleCount = 2 /\ Len(votes) = 3
  /\ req.stats.average.den = 2

\* |value - target|, multiplied by 2 * count
ScaledDistance(v) == Abs(2 * EligibleCount * v.value - ValueSum(EligibleVotes))
VoteOf(id) == CHOOSE v \in StoredVotes : v.id = id
WinnerIds == Range(StatsLocals(req.rows, req.newVoteId).winners)

\* C9: on a non-empty eligible set the winner set is not empty, its members
\* are eligible votes, and no eligible vote is nearer to the target than a
\* member.
C9_WinnersAtMinimum ==
  StatsAnswered =>
    /\ WinnerIds # {}
    /\ \A id \in WinnerIds :
         /\ \E v \in EligibleVotes : v.id = id
         /\ \A v \in EligibleVotes :
              ScaledDistance(VoteOf(id)) <= ScaledDistance(v)

\* three eligible votes, one winner, which is not the first row
C9_Witness ==
  /\ StatsAnswered
  /\ Len(req.rows) = 3
  /\ Cardinality(WinnerIds) = 1
  /\ req.rows[1].id \notin WinnerIds

\* |value - target| of submission i, multiplied by 2 * submissions.length
SubmissionDistance(i) ==
  Abs(2 * Len(submissions) * submissions[i].value
        - Sum([k \in DOMAIN submissions |-> submissions[k].value]))
Submitted == apiRes.status = 200 /\ apiRes.submissionsCount = Len(submissions)

\* C10 for /api/submit: when the submission just added and an earlier one are
\* at the same distance from the target and no submission is nearer, the
\* answer has isCurrentWinner = true.
C10_TieBothWin ==
  Submitted =>
    LET n == Len(submissions) IN
      (/\ \E i \in 1..(n - 1) : SubmissionDistance(i) = SubmissionDistance(n)
       /\ \A i \in 1..n : SubmissionDistance(n) <= SubmissionDistance(i))
      => apiRes.isCurrentWinner

\* C10 for computeGameStats: every eligible vote at the minimum distance is in
\* the winner set, and isWinner is true when the vote just inserted is one.
C10_StatsTie ==
  StatsAnswered =>
    /\ \A v \in EligibleVotes :
         (\A w \in EligibleVotes : ScaledDistance(v) <= ScaledDistance(w))
           => v.id \in WinnerIds
    /\ (/\ \E v \in EligibleVotes : v.id = req.newVoteId
        /\ \A w \in EligibleVotes :
             ScaledDistance(VoteOf(req.newVoteId)) <= ScaledDistance(w))
         => req.stats.isWinner

\* C11: when the vote newVoteId is not eligible at the moment of the
\* computation (filtered out by the constraints, or deleted), the answer has
\* isWinner = false, whatever its value.
C11_FilteredNotWinner ==
  [][(StatsStep /\ ~(\E v \in EligibleVotes : v.id = req.newVoteId)) =>
       req'.stats.isWinner = FALSE]_vars

\* the vote just inserted is filtered out, an eligible vote has the same
\* value and is the winner
C11_Witness ==
  /\ Answered /\ AnswerIsCurrent
  /\ \E v \in StoredVotes :
       /\ v.id = req.newVoteId /\ ~Eligible(v)
       /\ \E w \in EligibleVotes : w.value = v.value /\ w.id \in WinnerIds
  /\ req.stats.isWinner = FALSE

\* C12: totalVotes is the number of votes that are stored and eligible at the
\* moment of the computation.
C12_TotalVotes ==
  [][StatsStep => req'.stats.totalVotes = EligibleCount]_vars

\* two votes stored, one of them counted
C12_Witness ==
  /\ Answered /\ AnswerIsCurrent
  /\ Len(votes) = 2 /\ EligibleCount = 1
  /\ req.stats.totalVotes = 1

\* C13: the answer of computeGameStats is determined by the votes, the
\* constraints and newVoteId: every order of the rows gives the answer that
\* was returned, and the computation changes neither votes nor constraints.
C13_Deterministic ==
  [][StatsStep =>
       /\ \A rows \in getActiveVotes(votes, constraints) :
            req'.stats = computeGameStats(rows, req.newVoteId)
       /\ votes' = votes /\ constraints' = constraints]_vars

\* two rows with different values, returned against the table order, after an
\* earlier request was answered
C13_Witness ==
  /\ Answered /\ AnswerIsCurrent
  /\ Len(req.rows) = 2 /\ ~InTableOrder(req.rows)
  /\ req.rows[1].value # req.rows[2].value
  /\ req.stats.isWinner

\* C13 for /api/submit: average, target and isCurrentWinner of the answer do
\* not depend on the order of the submissions stored before the new one.
C13_SubmitOrder ==
  Submitted =>
    LET n == Len(submissions)
    IN  \A earlier \in Orderings(SubSeq(submissions, 1, n - 1)) :
          LET subs == Append(earlier, submissions[n])
              target == Target(SubmitAverage(subs))
          IN  /\ apiRes.average = SubmitAverage(subs)
              /\ apiRes.target = target
              /\ apiRes.isCurrentWinner = (BestIndex(subs, target) = n)

\* C14: with the votes {id 1: 300, id 2: 600} and no constraint, the result
\* is average 450, target 225, distances 75 and 375, winner set {1}, so
\* isWinner is true for id 1 and false for id 2, and totalVotes is 2.
ScenarioRun ==
  /\ pc = "done" /\ constraints = <<>> /\ Len(votes) = 2
  /\ votes[1].id = 1 /\ votes[1].value = 300
  /\ votes[2].id = 2 /\ votes[2].value = 600

C14_Scenario ==
  ScenarioRun =>
    LET l == StatsLocals(req.rows, req.newVoteId)
    IN  /\ req.stats.average = [num |-> 450, den |-> 1]
        /\ req.stats.target = [num |-> 225, den |-> 1]
        /\ \A i \in DOMAIN l.distances :
             l.distances[i].dist =
               [num |-> IF l.distances[i].id = 1 THEN 75 ELSE 375, den |-> 1]
        /\ {l.distances[i].id : i \in DOMAIN l.distances} = {1, 2}
        /\ Range(l.winners) = {1}
        /\ req.stats.isWinner = (req.newVoteId = 1)
        /\ computeGameStats(req.rows, 1).isWinner = TRUE
        /\ computeGameStats(req.rows, 2).isWinner = FALSE
        /\ req.stats.totalVotes = 2

\* the run asked for id 2, with the rows returned against the table order
C14_Witness ==
  /\ ScenarioRun /\ req.newVoteId = 2
  /\ req.rows[1].id = 2
  /\ req.stats.isWinner = FALSE

\* C15: a vote that exists before and after a step has the same value,
\* created_at and every other stored field; the vote store changes only by
\* the insertion of one new vote at the end or the deletion of votes.
VotesKept ==
  \A v \in Range(votes) : \A w \in Range(votes') : w.id = v.id => w = v
VotesInsertedOrDeleted ==
  \/ votes' = votes
  \/ \E w \in Range(votes') :
       /\ votes' = Append(votes, w)
       /\ \A v \in Range(votes) : v.id # w.id
  \/ \E id \in VoteIds : votes' = DeleteById(votes, id)

C15_NeverMutated == [][VotesKept /\ VotesInsertedOrDeleted]_vars

\* The same statement for the constraint variant of src/server.js, where no
\* route updates a row of votes.
C15_ConstraintVariant == [][VotesInsertedOrDeleted /\ VotesKept]_vars

\* C20: when exactly one submission is at the minimum distance from the
\* target, isCurrentWinner of /api/submit equals isWinner of computeGameStats
\* for the submission just added; the two differ only when more than one
\* submission is at the minimum distance.
NearestSubmissions ==
  {i \in DOMAIN submissions :
     \A k \in DOMAIN submissions : SubmissionDistance(i) <= SubmissionDistance(k)}
SubmissionRows ==
  [i \in DOMAIN submissions |-> [id |-> i, value |-> submissions[i].value]]
TwoPassIsWinner ==
  computeGameStats(SubmissionRows, Len(submissions)).isWinner

C20_AgreeWithoutTie ==
  Submitted =>
    /\ Cardinality(NearestSubmissions) = 1 =>
         apiRes.isCurrentWinner = TwoPassIsWinner
    /\ apiRes.isCurrentWinner # TwoPassIsWinner =>
         Cardinality(NearestSubmissions) > 1

\* three submissions, the last one alone at the minimum distance, and both
\* algorithms call it the winner
C20_Witness ==
  /\ Submitted /\ Len(submissions) = 3
  /\ NearestSubmissions = {3}
  /\ apiRes.isCurrentWinner /\ TwoPassIsWinner

\* C17: under every interleaving of POST /vote requests, no player_id has
\* more than PLAYER_MAX_VOTES stored votes whose created_at lie within one
\* window of PLAYER_WINDOW_MINUTES.
VotesInWindow(playerId, start) ==
  {i \in DOMAIN votes :
     /\ votes[i].player_id = playerId
     /\ start <= votes[i].created_at
     /\ votes[i].created_at <= start + PLAYER_WINDOW_MINUTES}

C17_PlayerLimit ==
  \A i \in DOMAIN votes :
    Cardinality(VotesInWindow(votes[i].player_id, votes[i].created_at))
      <= PLAYER_MAX_VOTES

\* The limit of C17 holds when the requests run one at a time (SpecSerial),
\* for every window that starts at a minute of the clock.
C17_Serial ==
  \A playerId \in PlayerIds : \A start \in 0..MaxClock :
    Cardinality(VotesInWindow(playerId, start)) <= PLAYER_MAX_VOTES

\* C18: a rate-limited POST /vote changes nothing.  When the player's count
\* in the last 5 minutes is >= 3 the request ends with the per-player error,
\* otherwise when the IP's count in the last 10 minutes is >= 200 it ends with
\* the per-IP error; in both cases no vote is inserted and no stats are
\* computed.  The player check runs before the IP check, and both before the
\* insert.
Moved(c, from) == clients[c].pc = from /\ clients'[c] # clients[c]
NothingStored(c) ==
  /\ votes' = votes /\ nextVoteId' = nextVoteId
  /\ clients'[c].newVoteId = 0 /\ clients'[c].stats = EmptyStats
PlayerLimited(c) ==
  PlayerCount(votes, clients[c].playerId, now) >= PLAYER_MAX_VOTES
IpLimited(c) == IpCount(votes, clients[c].ip, now) >= IP_MAX_VOTES

RateLimitedStep(c) ==
  /\ (Moved(c, "validated") /\ PlayerLimited(c)) =>
       /\ clients'[c].pc = "done" /\ clients'[c].error = ErrPlayer
       /\ NothingStored(c)
  /\ (Moved(c, "validated") /\ ~PlayerLimited(c)) =>
       /\ clients'[c].pc = "playerOk" /\ clients'[c].error = NoError
  /\ (Moved(c, "playerOk") /\ IpLimited(c)) =>
       /\ clients'[c].pc = "done" /\ clients'[c].error = ErrIp
       /\ NothingStored(c)
  /\ (Moved(c, "playerOk") /\ ~IpLimited(c)) =>
       /\ clients'[c].pc = "ipOk" /\ clients'[c].error = NoError
  \* the insert of a request comes after both of its checks
  /\ clients'[c].newVoteId # clients[c].newVoteId /\ clients'[c].newVoteId # 0
       => clients[c].pc = "ipOk"
  \* a request that was answered stores nothing afterwards
  /\ (Moved(c, "done") /\ clients[c].error # NoError) =>
       /\ votes' = votes
       /\ clients'[c].pc \in {"validated", "done"}

C18_RateLimitedNoChange ==
  /\ [][\A c \in Clients : RateLimitedStep(c)]_vars
  /\ [](\A c \in Clients :
          clients[c].error \in {ErrPlayer, ErrIp} =>
            /\ clients[c].pc = "done"
            /\ clients[c].newVoteId = 0 /\ clients[c].stats = EmptyStats)

\* at the IP cap: one request of a player at the player cap got the
\* per-player error, one request of another player got the per-IP error, and
\* the table is as it was
C18_Witness ==
  /\ votes = CrowdTable(IP_MAX_VOTES, PLAYER_MAX_VOTES)
  /\ \E c \in Clients : \E d \in Clients :
       /\ clients[c].pc = "done" /\ clients[c].error = ErrPlayer
       /\ PlayerLimited(c) /\ IpLimited(c)
       /\ clients[d].pc = "done" /\ clients[d].error = ErrIp
       /\ ~PlayerLimited(d)

\* C16: after any sequence of submissions, valid or invalid, every stored
\* vote of POST /vote and every stored submission of POST /api/submit has an
\* integer value v with 0 <= v <= 1000.
C16_StoredValuesInRange ==
  /\ \A i \in DOMAIN votes :
       /\ votes[i].value \in Int
       /\ 0 <= votes[i].value /\ votes[i].value <= 1000
  /\ \A i \in DOMAIN submissions :
       /\ submissions[i].value \in Int /\ ~submissions[i].frac
       /\ 0 <= submissions[i].value /\ submissions[i].value <= 1000

\* both stores hold values, and the last request to each was rejected
C16_Witness ==
  /\ Len(votes) >= 2 /\ Len(submissions) >= 2
  /\ \E c \in Serial : clients[c].pc = "done" /\ clients[c].error = ErrInvalid
  /\ apiRes.status = 400

\* C19: an invalid submission leaves the store unchanged.  When the parsed
\* value is NaN, below 0 or above 1000, POST /vote renders ErrInvalid, inserts
\* no vote and runs no rate-limit query (the request ends at once); POST
\* /api/submit answers 400 without appending to submissions.
ParsedInvalid(raw) == raw.kind = "text" \/ raw.val < 0 \/ raw.val > 1000
NotAnInteger(raw) == raw.kind # "int"

InvalidVoteStep ==
  \A c \in Serial, raw \in Raws, cookie \in StoreCookies, ip \in Ips :
    (ParsedInvalid(raw) /\ LimitedStart(c, raw, cookie, ip)) =>
      /\ votes' = votes /\ nextVoteId' = nextVoteId
      /\ clients'[c].pc = "done" /\ clients'[c].error = ErrInvalid
      /\ clients'[c].newVoteId = 0
InvalidVoteStays ==
  \A c \in Serial :
    (clients[c].error = ErrInvalid /\ clients'[c] # clients[c]) =>
      /\ clients[c].pc = "done" /\ votes' = votes
      /\ clients'[c].pc \in {"validated", "done"}
InvalidSubmitStep ==
  \A raw \in Raws :
    ((ParsedInvalid(raw) \/ NotAnInteger(raw)) /\ Submit(raw)) =>
      /\ submissions' = submissions
      /\ apiRes'.status = 400

C19_InvalidNoChange ==
  [][InvalidVoteStep /\ InvalidVoteStays /\ InvalidSubmitStep]_vars

\* an invalid vote and an invalid submission were rejected, with values stored
C19_Witness ==
  /\ Len(votes) >= 1 /\ Len(submissions) >= 1
  /\ apiRes.status = 400
  /\ \E c \in Serial :
       /\ clients[c].pc = "done" /\ clients[c].error = ErrInvalid
       /\ clients[c].newVoteId = 0

\* C19 for the constraint variant of POST /vote (src/server.js line 238).
C19_ConstraintVariant ==
  [][\A raw \in Raws :
       (ParsedInvalid(raw) /\ VoteInsert(raw)) =>
         /\ votes' = votes /\ nextVoteId' = nextVoteId
         /\ pc' = "done" /\ req'.error = ErrInvalid]_vars

\* C22: after any sequence of accepted submissions, the winning submission
\* reported by /api/submit is the earliest submission whose distance to the
\* target is minimal over all submissions, winningValue is its value, and
\* isCurrentWinner is true exactly when that submission is the one just added.
EarliestNearest ==
  CHOOSE i \in NearestSubmissions : \A k \in NearestSubmissions : i <= k

C22_EarliestNearestWins ==
  Submitted =>
    /\ apiRes.winningValue = submissions[EarliestNearest].value
    /\ apiRes.isCurrentWinner <=> (EarliestNearest = Len(submissions))

\* two submissions with different values at the minimum distance: the value
\* of the earlier one is reported, and the one just added is not the winner
C22_Witness ==
  /\ Submitted /\ Len(submissions) = 3
  /\ \E i \in NearestSubmissions : \E k \in NearestSubmissions :
       i < k /\ submissions[i].value # submissions[k].value
  /\ apiRes.winningValue = submissions[EarliestNearest].value
  /\ ~apiRes.isCurrentWinner

\* C25: POST /admin/constraints/:id/toggle flips the enabled flag of exactly
\* the constraint with that id and leaves every other constraint and every
\* vote unchanged (nothing changes when no constraint has that id); two
\* consecutive toggles of the same id restore the enabled flag and the
\* eligible set.
ToggleIsLocal(id) ==
  /\ votes' = votes
  /\ DOMAIN constraints' = DOMAIN constraints
  /\ \A i \in DOMAIN constraints :
       /\ constraints'[i].id = constraints[i].id
       /\ constraints'[i].start_time = constraints[i].start_time
       /\ constraints'[i].end_time = constraints[i].end_time
       /\ constraints'[i].type = constraints[i].type
       /\ constraints'[i].enabled =
            IF constraints[i].id = id THEN ~constraints[i].enabled
            ELSE constraints[i].enabled
  /\ (\A i \in DOMAIN constraints : constraints[i].id # id) =>
       constraints' = constraints
ToggledTwice(id) == ToggleConstraint(ToggleConstraint(constraints, id), id)

C25_ToggleInvolution ==
  /\ [][\A id \in ConstraintIds : AdminToggle(id) => ToggleIsLocal(id)]_vars
  /\ [](\A id \in ConstraintIds :
          /\ ToggledTwice(id) = constraints
          /\ getActiveVotes(votes, ToggledTwice(id))
               = getActiveVotes(votes, constraints))

\* two constraints stored, one of them disabled, and the toggle of one of
\* them changes the eligible set of the stored votes
C25_Witness ==
  /\ Len(constraints) = 2 /\ Len(votes) >= 1
  /\ \E i \in DOMAIN constraints : ~constraints[i].enabled
  /\ \E id \in ConstraintIds :
       /\ \E i \in DOMAIN constraints : constraints[i].id = id
       /\ getActiveVotes(votes, ToggleConstraint(constraints, id))
            # getActiveVotes(votes, constraints)

\* C27: a constraint whose start is after its end is accepted by POST
\* /admin/constraints and matches no timestamp: an enabled exclude constraint
\* with start > end excludes no vote, and when there are enabled include
\* constraints and every one of them has start > end, the eligible set is
\* empty and computeGameStats returns the empty sentinel, whatever the votes.
Inverted(c) == c.start_time > c.end_time
EnabledOf(type) == {c \in Range(constraints) : c.enabled /\ c.type = type}
OnlyInvertedIncludes ==
  EnabledOf("include") # {} /\ \A c \in EnabledOf("include") : Inverted(c)

InvertedAccepted ==
  \A start \in Times, end \in Times, type \in Types, enabled \in BOOLEAN :
    (start > end /\ AdminCreateConstraint(start, end, type, enabled)) =>
      /\ Len(constraints') = Len(constraints) + 1
      /\ LET c == constraints'[Len(constraints')]
         IN  /\ c.start_time = start /\ c.end_time = end
             /\ c.type = type /\ c.enabled = enabled

C27_InvertedMatchesNothing ==
  /\ [][InvertedAccepted]_vars
  /\ [](\A c \in EnabledOf("exclude") :
          Inverted(c) =>
            ActiveRows(votes, DeleteById(constraints, c.id))
              = ActiveRows(votes, constraints))
  /\ [](OnlyInvertedIncludes =>
          /\ ActiveRows(votes, constraints) = <<>>
          /\ \A id \in VoteIds :
               computeGameStats(ActiveRows(votes, constraints), id)
                 = EmptyStats)
  /\ [][(StatsStep /\ OnlyInvertedIncludes) => req'.stats = EmptyStats]_vars

\* an enabled exclude and an enabled include constraint, both with start
\* after end, two votes stored, and the vote just sent answered with the
\* empty sentinel
C27_Witness ==
  /\ Answered /\ AnswerIsCurrent /\ Len(votes) = 2
  /\ \E c \in EnabledOf("exclude") : Inverted(c)
  /\ OnlyInvertedIncludes
  /\ req.stats = EmptyStats

\* C23: the stats reported to a voter are computed after their vote is
\* inserted: under every interleaving of POST /vote with the admin actions,
\* when the voter's vote is in the eligible set at the computation, the answer
\* reports a non-null average, and the vote is among the rows counted in
\* totalVotes and summed in the average.
OwnVoteEligible == \E v \in EligibleVotes : v.id = req.newVoteId

C23_LimitedVariant ==
  [][\A c \in Clients :
       (/\ clients[c].pc = "inserted" /\ clients'[c].pc = "done"
        /\ \E v \in EligibleVotes : v.id = clients[c].newVoteId) =>
         /\ clients'[c].stats.average # Null
         /\ clients'[c].stats.totalVotes = EligibleCount
         /\ clients'[c].stats.average
              = Div(ValueSum(EligibleVotes), EligibleCount)]_vars

\* C21: the activity board rendered after a successful POST /vote holds at
\* most 10 votes, ordered by created_at descending, and every vote on it is
\* in the eligible set of the store state the board was read from.  Stated
\* for the rate-limited variant.
BoardOrdered(board) ==
  \A a \in DOMAIN board : \A b \in DOMAIN board :
    a < b => board[a].created_at >= board[b].created_at
BoardEligible(board) ==
  \A k \in DOMAIN board :
    \E v \in EligibleVotes :
      v.value = board[k].value /\ v.created_at = board[k].created_at
BoardAsStated(board) ==
  Len(board) <= 10 /\ BoardOrdered(board) /\ BoardEligible(board)

C21_BoardEligible ==
  [][\A c \in Clients :
       (clients[c].pc = "inserted" /\ clients'[c].pc = "done") =>
         BoardAsStated(clients'[c].recentVotes)]_vars

\* The same statement for the constraint variant of src/server.js, whose
\* recentQuery repeats the WHERE clause of getActiveVotes.
C21_ConstraintVariant ==
  [][StatsStep => BoardAsStated(req'.recentVotes)]_vars

\* The board of the rate-limited variant is at most 10 rows long and ordered.
C21_LimitedBoardShape ==
  [][\A c \in Clients :
       (clients[c].pc = "inserted" /\ clients'[c].pc = "done") =>
         /\ Len(clients'[c].recentVotes) <= 10
         /\ BoardOrdered(clients'[c].recentVotes)]_vars

\* C26: whenever POST /vote answers with the generic error, no vote of that
\* request is stored.
C26_NoPartialVote ==
  (pc = "done" /\ req.error = ErrGeneric) =>
    ~(\E v \in StoredVotes : v.id = req.newVoteId)

\* When the INSERT itself fails, nothing of the request is stored.
C26_InsertFailure ==
  [][\A raw \in Raws : VoteInsertFails(raw) =>
       votes' = votes /\ req'.error = ErrGeneric /\ req'.newVoteId = 0]_vars

\* C24: a request to an /admin route changes constraints or votes only if
\* its Authorization header is Basic and decodes to ADMIN_USER:ADMIN_KEY;
\* every other request gets 401, or 500 when ADMIN_USER or ADMIN_KEY is not
\* configured, and leaves votes and constraints unchanged.
Configured == admin.user # "" /\ admin.key # ""
ExactCredentials(header) ==
  header.scheme = "Basic" /\ header.fields = <<admin.user, admin.key>>
AdminAnswered == admin' # admin

C24_AdminGated ==
  [][/\ (votes' # votes \/ constraints' # constraints) =>
          Configured /\ ExactCredentials(admin'.header)
     /\ (AdminAnswered /\ ~(Configured /\ ExactCredentials(admin'.header))) =>
          /\ admin'.status = IF Configured THEN 401 ELSE 500
          /\ votes' = votes /\ constraints' = constraints]_vars

\* What requireAdminBasic does check: the first two fields of the decoded
\* text.
FirstTwoFields(header) ==
  /\ header.scheme = "Basic" /\ Len(header.fields) >= 2
  /\ header.fields[1] = admin.user /\ header.fields[2] = admin.key

C24_FirstTwoFields ==
  [][/\ (votes' # votes \/ constraints' # constraints) =>
          Configured /\ FirstTwoFields(admin'.header)
     /\ (AdminAnswered /\ ~(Configured /\ FirstTwoFields(admin'.header))) =>
          /\ admin'.status = IF Configured THEN 401 ELSE 500
          /\ votes' = votes /\ constraints' = constraints]_vars

====
